---- MODULE Spec2Model ----
(***************************************************************************)
(* Conversation context (src/conversation/context.py) and character        *)
(* resolution (src/games/gameable.py) of Mantella.                         *)
(*                                                                         *)
(* Strings that the code takes apart or puts together are sequences of     *)
(* text pieces; a Python str that is only compared or copied is a TLA+     *)
(* string.  Python None is the empty sequence where a value is optional.   *)
(***************************************************************************)
EXTENDS Integers, Sequences, FiniteSets, TLC

VARIABLES
    npcs_in_conversation,   \* context.__npcs_in_conversation: ordered, name-keyed roster
    last_added_character,   \* Characters.last_added_character: <<>> (None) or <<character>>
    ingame_events,          \* context.__ingame_events
    have_actors_changed,    \* context.__have_actors_changed
    location,               \* context.__location
    ingame_time,            \* context.__ingame_time
    prev_game_time,         \* context.__prev_game_time: (str(hour), time group) of the last change
    custom_context_values,  \* context.__custom_context_values: a set of <<key, value>>
    custom_ingame_events,   \* the list object the caller handed to update_context last
    character_df,           \* gameable.__character_df: the rows of the character table
    game,                   \* the gameable object: "absent", "with table" or "without table"
    call                    \* the operation that produced this state, its arguments and its outcome

vars == <<npcs_in_conversation, last_added_character, ingame_events, have_actors_changed,
          location, ingame_time, prev_game_time, custom_context_values, custom_ingame_events,
          character_df, game, call>>

updateVars == <<prev_game_time, custom_context_values, custom_ingame_events>>

rosterVars == <<npcs_in_conversation, last_added_character, ingame_events, have_actors_changed>>

(***************************************************************************)
(* Bounds of the model.                                                    *)
(***************************************************************************)
MaxList == 2      \* longest list handed to add_or_update_characters
MaxPending == 1   \* longest pending event queue a roster operation is applied to

(***************************************************************************)
(* Characters (src/character_manager.py is not part of the sources; the    *)
(* fields are the ones context.py reads).                                  *)
(***************************************************************************)
PlayerName == "Prisoner"
NpcNames == {"Lydia", "Ulfric"}
Ranks == {0, 1}

Character(n, combat, enemy, rank) ==
    [name |-> n, is_player_character |-> (n = PlayerName),
     is_in_combat |-> combat, is_enemy |-> enemy, relationship_rank |-> rank]

\* every character the game can hand over: full transient state
AllCharacters ==
    {Character(n, c, e, r) : n \in NpcNames, c \in BOOLEAN, e \in BOOLEAN, r \in Ranks}
    \cup {Character(PlayerName, FALSE, FALSE, 0), Character(PlayerName, TRUE, TRUE, 1)}

\* the characters with their transient state at rest
CalmCharacters == {Character(n, FALSE, FALSE, 0) : n \in NpcNames \cup {PlayerName}}

\* Lydia and the player: at rest, with one transient field raised, with all of them raised
LydiaAndPlayer ==
    { Character("Lydia", FALSE, FALSE, 0), Character("Lydia", TRUE, FALSE, 0),
      Character("Lydia", FALSE, TRUE, 0), Character("Lydia", FALSE, FALSE, 1),
      Character("Lydia", TRUE, TRUE, 1),
      Character(PlayerName, FALSE, FALSE, 0), Character(PlayerName, TRUE, TRUE, 1) }

ListsOf(S, n) == UNION {[1..k -> S] : k \in 0..n}

NamesOf(list) == {list[i].name : i \in 1..Len(list)}

(***************************************************************************)
(* Characters: the roster class (src/characters_manager.py, not part of    *)
(* the sources): a dict keyed by name that keeps insertion order.          *)
(***************************************************************************)
contains_character(npcs, npc) == npc.name \in NamesOf(npcs)

IndexOfName(npcs, n) == CHOOSE i \in 1..Len(npcs) : npcs[i].name = n

get_character_by_name(npcs, n) == npcs[IndexOfName(npcs, n)]

add_character(npcs, npc) ==
    IF contains_character(npcs, npc)
    THEN [npcs EXCEPT ![IndexOfName(npcs, npc.name)] = npc]
    ELSE Append(npcs, npc)

Characters_remove_character(npcs, npc) ==
    SelectSeq(npcs, LAMBDA c : c.name # npc.name)

get_all_characters(npcs) == npcs

get_player_character(npcs) ==
    SelectSeq(npcs, LAMBDA c : c.is_player_character)

\* Character.__eq__ as used by "npc in new_list_of_npcs": identity is the name
CharacterIn(npc, list) == npc.name \in NamesOf(list)

(***************************************************************************)
(* conversation_log.load_conversation_log(npc): the number of stored       *)
(* exchanges with a character.                                             *)
(***************************************************************************)
ConversationLogLen(n) == IF n = "Lydia" THEN 0 ELSE 12

\* fifty exchanges still make a friend
get_trust_friend_at_fifty(rank, trust_level) ==
    IF rank = 0
    THEN IF trust_level < 1 THEN "a stranger"
         ELSE IF trust_level < 10 THEN "an acquaintance"
         ELSE IF trust_level <= 50 THEN "a friend"
         ELSE "a close friend"
    ELSE IF rank = 4 THEN "a lover"
    ELSE IF rank > 0 THEN "a friend"
    ELSE "an enemy"

\* context.__get_trust, of the rank and len(load_conversation_log(npc))
get_trust(rank, trust_level) ==
    IF rank = 0
    THEN IF trust_level < 1 THEN "a stranger"
         ELSE IF trust_level < 10 THEN "an acquaintance"
         ELSE IF trust_level < 50 THEN "a friend"
         ELSE IF trust_level >= 50 THEN "a close friend"
         ELSE "a stranger"
    ELSE IF rank = 4 THEN "a lover"
    ELSE IF rank > 0 THEN "a friend"
    ELSE IF rank < 0 THEN "an enemy"
    ELSE "a stranger"

(***************************************************************************)
(* Events: the f-strings of context.py, one tuple per string with the      *)
(* interpolated values.                                                    *)
(***************************************************************************)
LeftEvent(n) == <<"has left the conversation", n>>
CombatEvent(n, now) == IF now THEN <<"is now in combat!", n>> ELSE <<"is no longer in combat!", n>>
EnemyEvent(n, now, player_name) ==
    IF now THEN <<"is attacking", n, player_name>> ELSE <<"is no longer attacking", n, player_name>>
TrustEvent(n, trust, player_name) == <<"is now _ to", player_name, trust, n>>

\* hostility and relationship rank are reported for the player character, too
update_ingame_events_for_everyone(npcs, npc) ==
    LET current_stats == get_character_by_name(npcs, npc.name)
        player == get_player_character(npcs)
        player_name == IF player # <<>> THEN player[1].name ELSE "the player"
        combat == IF current_stats.is_in_combat # npc.is_in_combat
                  THEN <<CombatEvent(npc.name, npc.is_in_combat)>> ELSE <<>>
        enemy == IF current_stats.is_enemy # npc.is_enemy
                 THEN <<EnemyEvent(npc.name, npc.is_enemy, player_name)>> ELSE <<>>
        rank == IF current_stats.relationship_rank # npc.relationship_rank
                THEN <<TrustEvent(npc.name,
                                  get_trust(npc.relationship_rank, ConversationLogLen(npc.name)),
                                  player_name)>>
                ELSE <<>>
    IN  combat \o enemy \o rank

\* context.__update_ingame_events_on_npc_change: the events appended for npc
update_ingame_events_on_npc_change(npcs, npc) ==
    LET current_stats == get_character_by_name(npcs, npc.name)
        player == get_player_character(npcs)
        player_name == IF player # <<>> THEN player[1].name ELSE "the player"
        combat == IF current_stats.is_in_combat # npc.is_in_combat
                  THEN <<CombatEvent(npc.name, npc.is_in_combat)>> ELSE <<>>
        enemy == IF current_stats.is_enemy # npc.is_enemy
                 THEN <<EnemyEvent(npc.name, npc.is_enemy, player_name)>> ELSE <<>>
        rank == IF current_stats.relationship_rank # npc.relationship_rank
                THEN <<TrustEvent(npc.name,
                                  get_trust(npc.relationship_rank, ConversationLogLen(npc.name)),
                                  player_name)>>
                ELSE <<>>
    IN  IF ~npc.is_player_character THEN combat \o enemy \o rank ELSE combat

\* the fields of the context that the roster operations touch
Ctx == [npcs |-> npcs_in_conversation, last |-> last_added_character,
        events |-> ingame_events, changed |-> have_actors_changed]

\* the removal is reported but the actors-changed flag is left alone
remove_character_flag_untouched(c, npc) ==
    [c EXCEPT !.npcs = Characters_remove_character(c.npcs, npc),
              !.events = Append(c.events, LeftEvent(npc.name))]

\* context.__remove_character
remove_character_private(c, npc) ==
    [c EXCEPT !.npcs = Characters_remove_character(c.npcs, npc),
              !.events = Append(c.events, LeftEvent(npc.name)),
              !.changed = TRUE]

\* the flag is set for a character that is already there, too
AddOrUpdateOneAlwaysChanged(c, npc) ==
    IF ~contains_character(c.npcs, npc)
    THEN [c EXCEPT !.npcs = add_character(c.npcs, npc), !.last = <<npc>>, !.changed = TRUE]
    ELSE [c EXCEPT !.events = c.events \o update_ingame_events_on_npc_change(c.npcs, npc),
                   !.changed = TRUE]

\* one pass of the first loop of add_or_update_characters
AddOrUpdateOne(c, npc) ==
    IF ~contains_character(c.npcs, npc)
    THEN [c EXCEPT !.npcs = add_character(c.npcs, npc), !.last = <<npc>>, !.changed = TRUE]
    ELSE [c EXCEPT !.events = c.events \o update_ingame_events_on_npc_change(c.npcs, npc)]

RECURSIVE AddOrUpdateLoop(_, _)
AddOrUpdateLoop(c, list) ==
    IF list = <<>> THEN c ELSE AddOrUpdateLoop(AddOrUpdateOne(c, Head(list)), Tail(list))

\* the loop walks the live roster: after a removal the next character is skipped
RECURSIVE RemoveLoopLive(_, _, _)
RemoveLoopLive(c, snapshot, new_list) ==
    IF snapshot = <<>> THEN c
    ELSE IF ~CharacterIn(Head(snapshot), new_list)
    THEN RemoveLoopLive(remove_character_private(c, Head(snapshot)),
                        IF Len(snapshot) >= 2 THEN Tail(Tail(snapshot)) ELSE <<>>, new_list)
    ELSE RemoveLoopLive(c, Tail(snapshot), new_list)

\* the second loop: walks the characters the roster held when the loop began
RECURSIVE RemoveLoop(_, _, _)
RemoveLoop(c, snapshot, new_list) ==
    IF snapshot = <<>> THEN c
    ELSE RemoveLoop(IF ~CharacterIn(Head(snapshot), new_list)
                    THEN remove_character_private(c, Head(snapshot)) ELSE c,
                    Tail(snapshot), new_list)

AddOrUpdateResult(c, new_list) ==
    LET added == AddOrUpdateLoop(c, new_list)
    IN  RemoveLoop(added, get_all_characters(added.npcs), new_list)

SetCtx(c) ==
    /\ npcs_in_conversation' = c.npcs
    /\ last_added_character' = c.last
    /\ ingame_events' = c.events
    /\ have_actors_changed' = c.changed

\* context.add_or_update_characters(new_list_of_npcs)
add_or_update_characters(new_list_of_npcs) ==
    LET c == AddOrUpdateResult(Ctx, new_list_of_npcs)
    IN  /\ Len(ingame_events) <= MaxPending
        /\ SetCtx(c)
        /\ UNCHANGED <<location, ingame_time, updateVars, character_df, game>>
        /\ call' = [op |-> "add_or_update_characters", new_list |-> new_list_of_npcs,
                    removed |-> Cardinality(NamesOf(npcs_in_conversation) \ NamesOf(new_list_of_npcs)),
                    known |-> Cardinality(NamesOf(npcs_in_conversation) \cap NamesOf(new_list_of_npcs)),
                    appended |-> Len(c.events) - Len(ingame_events)]

\* context.remove_character(npc)
remove_character(npc) ==
    LET c == IF contains_character(npcs_in_conversation, npc)
             THEN remove_character_private(Ctx, npc) ELSE Ctx
    IN  /\ Len(ingame_events) <= MaxPending
        /\ SetCtx(c)
        /\ UNCHANGED <<location, ingame_time, updateVars, character_df, game>>
        /\ call' = [op |-> "remove_character", npc |-> npc,
                    removed |-> IF contains_character(npcs_in_conversation, npc) THEN 1 ELSE 0]

\* context.clear_context_ingame_events()
clear_context_ingame_events ==
    /\ ingame_events' = <<>>
    /\ call' = [op |-> "clear_context_ingame_events"]
    /\ UNCHANGED <<npcs_in_conversation, last_added_character, have_actors_changed,
                   location, ingame_time, updateVars, character_df, game>>

\* context.have_actors_changed setter
set_have_actors_changed(value) ==
    /\ have_actors_changed' = value
    /\ call' = [op |-> "have_actors_changed", value |-> value]
    /\ UNCHANGED <<npcs_in_conversation, last_added_character, ingame_events,
                   location, ingame_time, updateVars, character_df, game>>

\* utils.get_time_group
get_time_group(hour) ==
    IF hour <= 4 THEN "at night"
    ELSE IF hour <= 7 THEN "in the early morning"
    ELSE IF hour <= 11 THEN "in the morning"
    ELSE IF hour <= 14 THEN "in the afternoon"
    ELSE IF hour <= 19 THEN "in the early evening"
    ELSE IF hour <= 21 THEN "in the late evening"
    ELSE "at night"

(***************************************************************************)
(* update_context.  The list of events is a Python list object: the call   *)
(* both reads it and appends to it, and the caller may hand the same       *)
(* object over again.                                                      *)
(***************************************************************************)
MaxHanded == 2    \* longest list object handed back to update_context

\* the event names the location the context held before the call
LocationEventStale(loc) == <<"The location is now", location>>

\* f"The location is now {location}."
LocationEvent(loc) == <<"The location is now", loc>>

\* f"The time is {current_time[0]} {current_time[1]}."
TimeEvent(current_time) == <<"The time is", current_time[1], current_time[2]>>

\* the list is replaced by the items
extend_replacing(list, items) == items

\* list.extend(items)
extend(list, items) == list \o items

\* the new values are merged into the old ones, as dict.update would
merged_values(old_values, new_values) ==
    new_values \cup {kv \in old_values : \A nv \in new_values : nv[1] # kv[1]}

\* self.__custom_context_values = custom_context_values
assigned_values(old_values, new_values) == new_values

\* every call counts as a change of location
location_differs_always(new_location) == TRUE

\* location != self.__location
location_differs(new_location) == new_location # location

\* the hour is left out of the pair
current_time_group_only(in_game_time) == <<"", get_time_group(in_game_time)>>

\* current_time = str(in_game_time), get_time_group(in_game_time)
current_time_of(in_game_time) == <<ToString(in_game_time), get_time_group(in_game_time)>>

\* update_context line by line; handed: the content of the list object at the call
UpdateResult(new_location, in_game_time, handed, values) ==
    LET events_111 == extend(ingame_events, handed)
        location_changes == location_differs(new_location)
        location_114 == IF location_changes THEN new_location ELSE location
        handed_115 == IF location_changes
                      THEN Append(handed, LocationEvent(new_location)) ELSE handed
        current_time == current_time_of(in_game_time)
        time_changes == current_time # prev_game_time
        prev_120 == IF time_changes THEN current_time ELSE prev_game_time
        handed_121 == IF time_changes THEN Append(handed_115, TimeEvent(current_time))
                      ELSE handed_115
    IN  [events |-> events_111, values |-> assigned_values(custom_context_values, values),
         location |-> location_114,
         time |-> in_game_time, prev |-> prev_120, handed |-> handed_121,
         \* the stored location at the moment line 115 appends the event
         location_at_append |-> IF location_changes THEN <<location_114>> ELSE <<>>]

\* context.update_context(location, in_game_time, custom_ingame_events, custom_context_values)
update_context(new_location, in_game_time, handed, values) ==
    LET r == UpdateResult(new_location, in_game_time, handed, values)
    IN  /\ Len(ingame_events) <= MaxPending
        /\ ingame_events' = r.events
        /\ custom_context_values' = r.values
        /\ location' = r.location
        /\ ingame_time' = r.time
        /\ prev_game_time' = r.prev
        /\ custom_ingame_events' = r.handed
        /\ call' = [op |-> "update_context", location |-> new_location,
                    in_game_time |-> in_game_time, custom_ingame_events |-> handed,
                    custom_context_values |-> values,
                    location_before |-> location, time_before |-> prev_game_time,
                    values_before |-> custom_context_values,
                    \* the call before was update_context with this location and hour
                    repeated |-> /\ call.op = "update_context"
                                 /\ call.location = new_location
                                 /\ call.in_game_time = in_game_time,
                    location_at_append |-> r.location_at_append]
        /\ UNCHANGED <<npcs_in_conversation, last_added_character, have_actors_changed,
                       character_df, game>>

\* context.get_custom_context_value(key): <<>> is None
get_custom_context_value(key) ==
    IF \E kv \in custom_context_values : kv[1] = key
    THEN <<(CHOOSE kv \in custom_context_values : kv[1] = key)[2]>>
    ELSE <<>>

\* context.get_context_ingame_events()
get_context_ingame_events == ingame_events

(***************************************************************************)
(* generate_system_message.  A prompt is a sequence of pieces: literal     *)
(* text, "{{" and "}}" (which str.format turns into a single brace) and    *)
(* the replacement fields "{name}", "{bios}", ...                          *)
(***************************************************************************)
RECURSIVE Concat(_)
Concat(seqs) == IF seqs = <<>> THEN <<>> ELSE Head(seqs) \o Concat(Tail(seqs))

\* sep.join(items), every item a sequence of pieces
RECURSIVE Join(_, _)
Join(items, sep) ==
    IF items = <<>> THEN <<>>
    ELSE IF Len(items) = 1 THEN items[1]
    ELSE items[1] \o <<sep>> \o Join(Tail(items), sep)

\* the items are joined by ', ' throughout
format_listing_commas_only(listing) == Join(listing, ", ")

\* context.format_listing
format_listing(listing) ==
    IF Len(listing) = 0 THEN <<>>
    ELSE IF Len(listing) = 1 THEN listing[1]
    ELSE Join(SubSeq(listing, 1, Len(listing) - 1), ", ") \o <<" and ">> \o listing[Len(listing)]

\* context.get_characters_excluding_player
get_characters_excluding_player(npcs) ==
    SelectSeq(get_all_characters(npcs), LAMBDA actor : ~actor.is_player_character)

\* Characters.get_all_names
get_all_names(npcs) == [i \in 1..Len(npcs) |-> <<npcs[i].name>>]

\* context.__get_trusts
get_trusts(npcs) ==
    LET others == get_characters_excluding_player(npcs)
    IN  format_listing([i \in 1..Len(others) |->
            <<get_trust(others[i].relationship_rank, ConversationLogLen(others[i].name)),
              " to ", others[i].name>>])

\* context.__get_character_names_as_text
get_character_names_as_text(npcs, should_include_player) ==
    IF should_include_player
    THEN format_listing(get_all_names(npcs))
    ELSE format_listing(get_all_names(get_characters_excluding_player(npcs)))

\* Character.bio
Bio(n) == "bio of " \o n

\* context.__get_bios_text
get_bios_text(npcs) ==
    LET others == get_characters_excluding_player(npcs)
    IN  Join([i \in 1..Len(others) |->
                IF Len(npcs) = 1 THEN <<Bio(others[i].name)>>
                ELSE <<others[i].name, ": ", Bio(others[i].name)>>], "\n")

Language == "English"    \* self.__language['language']

\* the keyword arguments of prompt.format for one entry of removal_content
FormatArguments(npcs, last, bios, summaries) ==
    LET player == get_player_character(npcs)
    IN  [x \in {"{player_name}", "{name}", "{names}", "{names_w_player}", "{bio}", "{bios}",
                "{trust}", "{location}", "{time}", "{time_group}", "{language}",
                "{conversation_summary}", "{conversation_summaries}"} |->
            CASE x = "{player_name}" -> IF player # <<>> THEN <<player[1].name>> ELSE <<>>
              [] x = "{name}" -> <<last[1].name>>
              [] x = "{names}" -> get_character_names_as_text(npcs, FALSE)
              [] x = "{names_w_player}" -> get_character_names_as_text(npcs, TRUE)
              [] x \in {"{bio}", "{bios}"} -> bios
              [] x = "{trust}" -> get_trusts(npcs)
              [] x = "{location}" -> <<location>>
              [] x = "{time}" -> <<ToString(ingame_time)>>
              [] x = "{time_group}" -> <<get_time_group(ingame_time)>>
              [] x = "{language}" -> <<Language>>
              [] x \in {"{conversation_summary}", "{conversation_summaries}"} -> summaries]

\* str.format
Format(prompt, args) ==
    Concat([i \in 1..Len(prompt) |->
        IF prompt[i] \in DOMAIN args THEN args[prompt[i]]
        ELSE IF prompt[i] = "{{" THEN <<"{">>
        ELSE IF prompt[i] = "}}" THEN <<"}">>
        ELSE <<prompt[i]>>])

\* the summaries are kept and the bios are dropped first
removal_content_bios_first(bios, conversation_summaries) ==
    <<<<bios, conversation_summaries>>, <<<<>>, conversation_summaries>>, <<<<>>, <<>>>>>>

\* removal_content: what is filled in for (bios, conversation summaries) in each attempt
removal_content(bios, conversation_summaries) ==
    <<<<bios, conversation_summaries>>, <<bios, <<>>>>, <<<<>>, <<>>>>>>

\* the second attempt already drops the bios
RenderingWithoutBiosOnly(prompt, conversation_summaries, i) ==
    LET content == removal_content(get_bios_text(npcs_in_conversation),
                                   conversation_summaries)[IF i = 2 THEN 3 ELSE i]
    IN  Format(prompt, FormatArguments(npcs_in_conversation, last_added_character,
                                       content[1], content[2]))

\* the rendering of the prompt for the i-th entry of removal_content
Rendering(prompt, conversation_summaries, i) ==
    LET content == removal_content(get_bios_text(npcs_in_conversation), conversation_summaries)[i]
    IN  Format(prompt, FormatArguments(npcs_in_conversation, last_added_character,
                                       content[1], content[2]))

\* the last rendering is returned although it was found too long
FinalFallbackLastRendering(prompt, asked) == asked[Len(asked)]

\* return prompt, after the loop
FinalFallback(prompt, asked) == prompt

\* the loop over removal_content from its i-th entry on; asked: the texts handed to
\* is_prompt_too_long so far
RECURSIVE RemovalLoop(_, _, _, _, _)
RemovalLoop(prompt, conversation_summaries, too_long, i, asked) ==
    IF i > 3
    THEN [outcome |-> "returned", result |-> FinalFallback(prompt, asked), asked |-> asked]
    ELSE LET result == Rendering(prompt, conversation_summaries, i)
         IN  IF result \notin too_long
             THEN [outcome |-> "returned", result |-> result, asked |-> Append(asked, result)]
             ELSE RemovalLoop(prompt, conversation_summaries, too_long, i + 1,
                              Append(asked, result))

\* what generate_system_message(prompt) does when the memory returns conversation_summaries
\* and is_prompt_too_long answers True exactly for the texts in too_long
GenerateResult(prompt, conversation_summaries, too_long) ==
    IF last_added_character = <<>>
    THEN [outcome |-> "UnboundLocalError", result |-> <<>>, asked |-> <<>>]   \* name is not bound
    ELSE RemovalLoop(prompt, conversation_summaries, too_long, 1, <<>>)

\* the events are taken as delivered once the message is generated
generate_system_message_flushing(prompt, conversation_summaries, too_long) ==
    LET r == GenerateResult(prompt, conversation_summaries, too_long)
    IN  /\ call' = [op |-> "generate_system_message", prompt |-> prompt,
                    conversation_summaries |-> conversation_summaries, too_long |-> too_long,
                    outcome |-> r.outcome, result |-> r.result, asked |-> r.asked]
        /\ ingame_events' = <<>>
        /\ UNCHANGED <<npcs_in_conversation, last_added_character, have_actors_changed,
                       location, ingame_time, updateVars, character_df, game>>

\* context.generate_system_message(prompt)
generate_system_message(prompt, conversation_summaries, too_long) ==
    LET r == GenerateResult(prompt, conversation_summaries, too_long)
    IN  /\ call' = [op |-> "generate_system_message", prompt |-> prompt,
                    conversation_summaries |-> conversation_summaries, too_long |-> too_long,
                    outcome |-> r.outcome, result |-> r.result, asked |-> r.asked]
        /\ UNCHANGED <<rosterVars, location, ingame_time, updateVars, character_df, game>>

(***************************************************************************)
(* find_character_info.  Ids, names and races are sequences of characters; *)
(* a missing cell of the table is NaN.  A boolean pandas Series is the set *)
(* of the row numbers where it is True.                                    *)
(***************************************************************************)
NaN == <<"NaN">>

isna(x) == x = NaN

\* str(x) for a cell of the table
str(x) == IF isna(x) THEN <<"n", "a", "n">> ELSE x

LowerChar(c) ==
    CASE c = "A" -> "a" [] c = "B" -> "b" [] c = "E" -> "e" [] c = "L" -> "l"
      [] c = "N" -> "n" [] c = "O" -> "o" [] c = "Y" -> "y" [] OTHER -> c

\* str.lower
lower(s) == [i \in 1..Len(s) |-> LowerChar(s[i])]

\* str.lstrip('0')
RECURSIVE lstrip0(_)
lstrip0(s) == IF s # <<>> /\ Head(s) = "0" THEN lstrip0(Tail(s)) ELSE s

\* s[-n:]
LastChars(s, n) == IF Len(s) <= n THEN s ELSE SubSeq(s, Len(s) - n + 1, Len(s))

\* str.split(sep)
RECURSIVE split(_, _)
split(s, sep) ==
    IF \E i \in 1..Len(s) : s[i] = sep
    THEN LET i == CHOOSE k \in 1..Len(s) : s[k] = sep /\ \A j \in 1..(k - 1) : s[j] # sep
         IN  <<SubSeq(s, 1, i - 1)>> \o split(SubSeq(s, i + 1, Len(s)), sep)
    ELSE <<s>>

remove_leading_zeros(hex_str) == IF isna(hex_str) THEN <<>> ELSE lstrip0(str(hex_str))

full_id_len == 6

id_match(df, character_id) ==
    {i \in 1..Len(df) :
        lower(remove_leading_zeros(df[i].base_id)) = lower(lstrip0(LastChars(character_id, full_id_len)))}

name_match(df, character_name) ==
    {i \in 1..Len(df) : lower(str(df[i].name)) = lower(character_name)}

race_match(df, character_race) ==
    {i \in 1..Len(df) : lower(str(df[i].race)) = lower(character_race)}

\* the comparison of the loop body for one length
PartialIdMatchAt(df, character_id, length) ==
    {i \in 1..Len(df) :
        lower(IF ~isna(df[i].base_id) /\ Len(str(df[i].base_id)) >= length
              THEN remove_leading_zeros(LastChars(str(df[i].base_id), length))
              ELSE remove_leading_zeros(str(df[i].base_id)))
        = lower(lstrip0(LastChars(character_id, length)))}

\* for length in [5, 4, 3]: stop as soon as the match of the length before is not empty
RECURSIVE PartialIdLoop(_, _, _, _)
PartialIdLoop(df, character_id, lengths, match) ==
    IF lengths = <<>> \/ match # {} THEN match
    ELSE PartialIdLoop(df, character_id, Tail(lengths),
                       PartialIdMatchAt(df, character_id, Head(lengths)))

\* the shortest length is tried first
partial_id_match_shortest_first(df, character_id) ==
    PartialIdLoop(df, character_id, <<3, 4, 5>>, {})

partial_id_match(df, character_id) == PartialIdLoop(df, character_id, <<5, 4, 3>>, {})

\* a row that matches the id in partial form is taken as well
just_id_or_partial(df, character_id) ==
    id_match(df, character_id) \cup partial_id_match(df, character_id)

\* the mask of the innermost try block: df.loc[id_match]
just_id(df, character_id) == id_match(df, character_id)

\* gameable.load_unnamed_npc (abstract): the record a game builds for an unknown NPC
load_unnamed_npc(name, race, gender, ingame_voice_model) ==
    [base_id |-> NaN, name |-> name, race |-> race,
     unnamed_npc |-> <<gender, ingame_voice_model>>]

\* name alone is tried before name + race
TiersNameBeforeRace(df, character_id, character_name, character_race) ==
    LET id == id_match(df, character_id)
        name == name_match(df, character_name)
        race == race_match(df, character_race)
        partial == partial_id_match(df, character_id)
    IN  << name \cap id \cap race,
           name \cap id,
           name \cap partial \cap race,
           name \cap partial,
           name,
           name \cap race,
           id >>

\* the masks of the nested try blocks, outermost first
Tiers(df, character_id, character_name, character_race) ==
    LET id == id_match(df, character_id)
        name == name_match(df, character_name)
        race == race_match(df, character_race)
        partial == partial_id_match(df, character_id)
    IN  << name \cap id \cap race,
           name \cap id,
           name \cap partial \cap race,
           name \cap partial,
           name \cap race,
           name,
           just_id(df, character_id) >>

Min(S) == CHOOSE i \in S : \A j \in S : i <= j

\* df.loc[mask].to_dict('records')[0] for each mask in turn; IndexError leads to the next
RECURSIVE Cascade(_, _, _)
Cascade(df, tiers, generic) ==
    IF tiers = <<>>
    THEN [outcome |-> "returned", character_info |-> generic, is_generic_npc |-> TRUE,
          tier |-> 8]
    ELSE IF Head(tiers) # {}
    THEN [outcome |-> "returned", character_info |-> df[Min(Head(tiers))],
          is_generic_npc |-> FALSE, tier |-> 8 - Len(tiers)]    \* the try block that succeeded
    ELSE Cascade(df, Tail(tiers), generic)

\* race.split('<')[1].split('Race ')[0]; <<>> stands for the IndexError of [1]
character_race_of(race) ==
    IF Len(split(race, "<")) < 2 THEN <<>>
    ELSE <<split(split(race, "<")[2], "Race ")[1]>>

\* the generic NPC is loaded with the race descriptor instead of the extracted race
FindResultRawRace(df, character_id, character_name, race, gender, ingame_voice_model) ==
    LET extracted == character_race_of(race)
    IN  IF extracted = <<>>
        THEN [outcome |-> "IndexError", character_info |-> NaN, is_generic_npc |-> FALSE,
              tier |-> 0]
        ELSE Cascade(df, Tiers(df, character_id, character_name, extracted[1]),
                     load_unnamed_npc(character_name, race, gender, ingame_voice_model))

FindResult(df, character_id, character_name, race, gender, ingame_voice_model) ==
    LET extracted == character_race_of(race)
    IN  IF extracted = <<>>
        THEN [outcome |-> "IndexError", character_info |-> NaN, is_generic_npc |-> FALSE,
              tier |-> 0]
        ELSE Cascade(df, Tiers(df, character_id, character_name, extracted[1]),
                     load_unnamed_npc(character_name, extracted[1], gender, ingame_voice_model))

\* gameable.find_character_info(character_id, character_name, race, gender, ingame_voice_model)
find_character_info(character_id, character_name, race, gender, ingame_voice_model) ==
    LET r == FindResult(character_df, character_id, character_name, race, gender,
                        ingame_voice_model)
    IN  /\ call' = [op |-> "find_character_info", character_id |-> character_id,
                    character_name |-> character_name, race |-> race, gender |-> gender,
                    ingame_voice_model |-> ingame_voice_model, outcome |-> r.outcome,
                    character_info |-> r.character_info, is_generic_npc |-> r.is_generic_npc,
                    tier |-> r.tier,
                    \* the local partial_id_match, when line 122 has not raised
                    partial_id_match |-> IF r.outcome = "returned"
                                         THEN partial_id_match(character_df, character_id)
                                         ELSE {}]
        /\ UNCHANGED <<rosterVars, location, ingame_time, updateVars, character_df, game>>

\* context.__init__
Init ==
    /\ npcs_in_conversation = <<>>
    /\ last_added_character = <<>>
    /\ ingame_events = <<>>
    /\ have_actors_changed = FALSE
    /\ location = "Skyrim"
    /\ ingame_time = 12
    /\ prev_game_time = <<"", "">>
    /\ custom_context_values = {}
    /\ custom_ingame_events = <<>>
    /\ character_df = <<>>
    /\ game = "with table"
    /\ call = [op |-> "__init__"]

(***************************************************************************)
(* Spec: who is in the conversation.  Three characters come and go.        *)
(***************************************************************************)
AddOrUpdateCalm == \E l \in ListsOf(CalmCharacters, MaxList) : add_or_update_characters(l)
RemoveCalm == \E c \in CalmCharacters : remove_character(c)
ClearEvents == clear_context_ingame_events
SetActorsChanged == \E v \in BOOLEAN : set_have_actors_changed(v)

Next == AddOrUpdateCalm \/ RemoveCalm \/ ClearEvents \/ SetActorsChanged

Spec == Init /\ [][Next]_vars

(***************************************************************************)
(* SpecTransient: Lydia and the player, whose transient fields change      *)
(* between calls.                                                          *)
(***************************************************************************)
AddOrUpdateTransient == \E l \in ListsOf(LydiaAndPlayer, MaxList) : add_or_update_characters(l)
RemoveTransient == \E c \in LydiaAndPlayer : remove_character(c)

NextTransient == AddOrUpdateTransient \/ RemoveTransient \/ ClearEvents \/ SetActorsChanged

SpecTransient == Init /\ [][NextTransient]_vars

(***************************************************************************)
(* SpecPrompt: the roster changes and the system message is generated.     *)
(***************************************************************************)
Prompts ==
    { <<"You are ", "{name}", ". ", "{bios}", "{conversation_summaries}">>,
      <<"{{", "{names_w_player}", "}}", "{trust}", "{location}", "{time}", "{time_group}",
        "{language}", "{player_name}">>,
      <<"{bio}", " with ", "{names}">>,
      <<"{conversation_summary}">> }

Summaries == { <<>>, <<"summary">> }

\* the texts the predicate may be asked about
Candidates(prompt, conversation_summaries) ==
    IF last_added_character = <<>> THEN {}
    ELSE {Rendering(prompt, conversation_summaries, i) : i \in 1..3}

GenerateSystemMessage ==
    \E prompt \in Prompts, summaries \in Summaries :
        \E too_long \in SUBSET Candidates(prompt, summaries) :
            generate_system_message(prompt, summaries, too_long)

NextPrompt == AddOrUpdateCalm \/ ClearEvents \/ GenerateSystemMessage

SpecPrompt == Init /\ [][NextPrompt]_vars

(***************************************************************************)
(* SpecContext: the game reports its location, hour, events and custom     *)
(* values; the queue is read and flushed.                                  *)
(***************************************************************************)
Locations == {"Skyrim", "Whiterun"}
Hours == {12, 13, 20}    \* two hours of one time group, one hour of another
ContextValues == { {}, {<<"weather", "rain">>}, {<<"quest", "main">>} }
FreshEvents == { <<>>, << <<"custom event">> >> }

\* the caller builds a new list for the call
UpdateContext ==
    \E l \in Locations, h \in Hours, events \in FreshEvents, values \in ContextValues :
        update_context(l, h, events, values)

\* the caller hands over the list object of the call before
UpdateContextSameList ==
    /\ Len(custom_ingame_events) <= MaxHanded
    /\ \E l \in Locations, h \in Hours :
           update_context(l, h, custom_ingame_events, custom_context_values)

GetContextIngameEvents ==
    /\ call' = [op |-> "get_context_ingame_events", result |-> get_context_ingame_events]
    /\ UNCHANGED <<rosterVars, location, ingame_time, updateVars, character_df, game>>

GetCustomContextValue ==
    \E key \in {"weather", "quest"} :
        /\ call' = [op |-> "get_custom_context_value", key |-> key,
                    result |-> get_custom_context_value(key)]
        /\ UNCHANGED <<rosterVars, location, ingame_time, updateVars, character_df, game>>

NextContext ==
    \/ UpdateContext
    \/ UpdateContextSameList
    \/ ClearEvents
    \/ GetContextIngameEvents
    \/ GetCustomContextValue

SpecContext == Init /\ [][NextContext]_vars

(***************************************************************************)
(* SpecNaming: Lydia and the player come, change and go, and the system    *)
(* message is generated with and without a player in the roster.           *)
(***************************************************************************)
GenerateInContext ==
    \E prompt \in Prompts : generate_system_message(prompt, <<>>, {})

NextNaming == AddOrUpdateTransient \/ ClearEvents \/ GenerateInContext

SpecNaming == Init /\ [][NextNaming]_vars

(***************************************************************************)
(* SpecTrust: the trust of one NPC, for every rank and every length of the *)
(* conversation log up to MaxCount.                                        *)
(***************************************************************************)
MaxCount == 51    \* longest conversation log
TrustRanks == -2..5

InitTrust ==
    /\ npcs_in_conversation = <<>>
    /\ last_added_character = <<>>
    /\ ingame_events = <<>>
    /\ have_actors_changed = FALSE
    /\ location = "Skyrim"
    /\ ingame_time = 12
    /\ prev_game_time = <<"", "">>
    /\ custom_context_values = {}
    /\ custom_ingame_events = <<>>
    /\ character_df = <<>>
    /\ game = "with table"
    /\ call \in [op : {"npc"}, relationship_rank : TrustRanks, trust_level : 0..MaxCount]

GetTrust ==
    /\ call.op = "npc"
    /\ call' = [op |-> "get_trust", relationship_rank |-> call.relationship_rank,
                trust_level |-> call.trust_level,
                trust |-> get_trust(call.relationship_rank, call.trust_level)]
    /\ UNCHANGED <<rosterVars, location, ingame_time, updateVars, character_df, game>>

NextTrust == GetTrust

SpecTrust == InitTrust /\ [][NextTrust]_vars

(***************************************************************************)
(* SpecQueue: every operation of the context that touches or reads the     *)
(* queue of events.                                                        *)
(***************************************************************************)
UpdateContextInConversation ==
    \E l \in Locations, h \in {12, 20}, events \in FreshEvents :
        update_context(l, h, events, {})

CalmNpcs == {c \in CalmCharacters : ~c.is_player_character}
AddOrUpdateNpcs == \E l \in ListsOf(CalmNpcs, MaxList) : add_or_update_characters(l)
RemoveNpc == \E c \in CalmNpcs : remove_character(c)

NextQueue ==
    \/ UpdateContextInConversation
    \/ AddOrUpdateNpcs
    \/ RemoveNpc
    \/ ClearEvents
    \/ GetContextIngameEvents
    \/ GenerateInContext

SpecQueue == Init /\ [][NextQueue]_vars

(***************************************************************************)
(* SpecReadOnly: the roster, the queue, the location and the hour change,  *)
(* and the system message is generated with every answer of the predicate. *)
(***************************************************************************)
\* the prompts that show the bios or the location
ShownPrompts ==
    {prompt \in Prompts :
        \E i \in 1..Len(prompt) : prompt[i] \in {"{bios}", "{location}"}}

GenerateWithEveryAnswer ==
    \E prompt \in ShownPrompts :
        \E too_long \in SUBSET Candidates(prompt, <<"summary">>) :
            generate_system_message(prompt, <<"summary">>, too_long)

NextReadOnly ==
    \/ UpdateContextInConversation
    \/ AddOrUpdateNpcs
    \/ ClearEvents
    \/ GenerateWithEveryAnswer

SpecReadOnly == Init /\ [][NextReadOnly]_vars

(***************************************************************************)
(* SpecFind: a table is loaded and characters are looked up in it.         *)
(***************************************************************************)
MaxRows == 2    \* rows of the character table

TableIds == { <<"0", "0", "0", "1", "a", "2">>, <<"2", "1", "0", "1", "A", "2">>, NaN }
TableNames == { <<"L", "y">>, <<"B", "o">> }
TableRaces == { <<"N">>, <<"E">> }

TableRows == [base_id : TableIds, name : TableNames, race : TableRaces]

QueryIds == { <<"0", "0", "0", "1", "A", "2">>, <<"2", "1", "0", "1", "a", "2">>,
              <<"0", "0", "0", "0", "0", "0">> }
QueryNames == { <<"l", "Y">>, <<"B", "o">>, <<"A", "l">> }
QueryRaces == { <<"<", "N", "Race ", "(", "1", ")", ">">>, <<"<", "e", "Race ">>,
                <<"<", "O">>, <<"N", "Race ">> }

Queries ==
    [op : {"lookup"}, character_id : QueryIds, character_name : QueryNames, race : QueryRaces,
     gender : {0, 1}, ingame_voice_model : {"FemaleNord"}]

\* Lydia as the table has her, and a second Lydia with another id
LydiaRow == [base_id |-> <<"0", "x", "0", "0", "0", "1", "2", "A", "B">>,
             name |-> <<"L", "y", "d", "i", "a">>, race |-> <<"N", "o", "r", "d">>]
OtherLydiaRow == [base_id |-> <<"0", "x", "0", "0", "0", "9", "9", "9", "9">>,
                  name |-> <<"L", "y", "d", "i", "a">>, race |-> <<"N", "o", "r", "d">>]

LydiaQueries ==
    [op : {"lookup"},
     character_id : { <<"1", "2", "A", "B">>, <<"0", "0", "1", "2", "a", "b">>, <<"2", "A", "B">> },
     character_name : { <<"L", "y", "d", "i", "a">> },
     race : { <<"<", "N", "o", "r", "d", "Race ", "(", "1", ")", ">">> },
     gender : {0, 1}, ingame_voice_model : {"FemaleNord"}]

\* gameable.__init__ reads the table; the game then asks for one character
InitFind ==
    /\ npcs_in_conversation = <<>>
    /\ last_added_character = <<>>
    /\ ingame_events = <<>>
    /\ have_actors_changed = FALSE
    /\ location = "Skyrim"
    /\ ingame_time = 12
    /\ prev_game_time = <<"", "">>
    /\ custom_context_values = {}
    /\ custom_ingame_events = <<>>
    /\ \/ /\ character_df \in UNION {[1..k -> TableRows] : k \in 0..MaxRows}
          /\ call \in Queries
       \/ /\ character_df \in UNION {[1..k -> {LydiaRow, OtherLydiaRow}] : k \in 1..MaxRows}
          /\ call \in LydiaQueries
    /\ game = "with table"

FindCharacterInfo ==
    /\ call.op = "lookup"
    /\ find_character_info(call.character_id, call.character_name, call.race, call.gender,
                           call.ingame_voice_model)

NextFind == FindCharacterInfo

SpecFind == InitFind /\ [][NextFind]_vars

(***************************************************************************)
(* SpecListing: format_listing of every list of up to MaxItems names.      *)
(***************************************************************************)
MaxItems == 4    \* longest list handed to format_listing
ListedItems == { <<"Lydia">>, <<"Ulfric">>, <<"Prisoner">> }

InitListing ==
    /\ npcs_in_conversation = <<>>
    /\ last_added_character = <<>>
    /\ ingame_events = <<>>
    /\ have_actors_changed = FALSE
    /\ location = "Skyrim"
    /\ ingame_time = 12
    /\ prev_game_time = <<"", "">>
    /\ custom_context_values = {}
    /\ custom_ingame_events = <<>>
    /\ character_df = <<>>
    /\ game = "with table"
    /\ call \in [op : {"listing"}, listing : ListsOf(ListedItems, MaxItems)]

FormatListing ==
    /\ call.op = "listing"
    /\ call' = [op |-> "format_listing", listing |-> call.listing,
                result |-> format_listing(call.listing)]
    /\ UNCHANGED <<rosterVars, location, ingame_time, updateVars, character_df, game>>

NextListing == FormatListing

SpecListing == InitListing /\ [][NextListing]_vars

(***************************************************************************)
(* SpecLoad: the game object is constructed from a table file that can or  *)
(* cannot be read, and is then asked for a character.                      *)
(***************************************************************************)
\* gameable.__init__(path_to_character_df, ...): readable tells whether __get_character_df
\* returns table or raises; stdin is what input() meets
gameable_init(readable, table, stdin) ==
    /\ game = "absent"
    /\ call.op = "start"
    /\ IF readable
       THEN /\ character_df' = table
            /\ game' = "with table"
            /\ call' = [op |-> "gameable.__init__", outcome |-> "constructed",
                        logged_error |-> FALSE, prompted |-> FALSE]
       ELSE IF stdin = "Enter"
       THEN \* the except branch ends after input(); __init__ goes on and returns
            /\ character_df' = character_df
            /\ game' = "without table"
            /\ call' = [op |-> "gameable.__init__", outcome |-> "constructed",
                        logged_error |-> TRUE, prompted |-> TRUE]
       ELSE \* input() meets the end of the input and raises out of __init__
            /\ character_df' = character_df
            /\ game' = "absent"
            /\ call' = [op |-> "gameable.__init__", outcome |-> "EOFError",
                        logged_error |-> TRUE, prompted |-> TRUE]
    /\ UNCHANGED <<rosterVars, location, ingame_time, updateVars>>

\* find_character_info on the object as __init__ left it: without __character_df the
\* property character_df raises in line 119
find_character_info_of(character_id, character_name, race, gender, ingame_voice_model) ==
    /\ game # "absent"
    /\ IF game = "without table"
       THEN /\ call' = [op |-> "find_character_info", character_id |-> character_id,
                        character_name |-> character_name, race |-> race, gender |-> gender,
                        ingame_voice_model |-> ingame_voice_model,
                        outcome |-> "AttributeError", character_info |-> NaN,
                        is_generic_npc |-> FALSE, tier |-> 0, partial_id_match |-> {}]
            /\ UNCHANGED <<rosterVars, location, ingame_time, updateVars, character_df, game>>
       ELSE find_character_info(character_id, character_name, race, gender,
                                ingame_voice_model)

InitLoad ==
    /\ npcs_in_conversation = <<>>
    /\ last_added_character = <<>>
    /\ ingame_events = <<>>
    /\ have_actors_changed = FALSE
    /\ location = "Skyrim"
    /\ ingame_time = 12
    /\ prev_game_time = <<"", "">>
    /\ custom_context_values = {}
    /\ custom_ingame_events = <<>>
    /\ character_df = <<>>
    /\ game = "absent"
    /\ call = [op |-> "start"]

GameableInit ==
    \E readable \in BOOLEAN, stdin \in {"Enter", "EOF"} :
        \E table \in UNION {[1..k -> TableRows] : k \in 0..MaxRows} :
            gameable_init(readable, table, stdin)

FindOnGame ==
    /\ call.op = "gameable.__init__"
    /\ \E q \in Queries :
           find_character_info_of(q.character_id, q.character_name, q.race, q.gender,
                                  q.ingame_voice_model)

NextLoad == GameableInit \/ FindOnGame

SpecLoad == InitLoad /\ [][NextLoad]_vars

(***************************************************************************)
(* Properties of generate_system_message (SpecPrompt).                     *)
(***************************************************************************)
Generated == call.op = "generate_system_message"

\* the three renderings in the order the design document fixes
FullRendering ==
    Format(call.prompt, FormatArguments(npcs_in_conversation, last_added_character,
                                        get_bios_text(npcs_in_conversation),
                                        call.conversation_summaries))
BiosOnlyRendering ==
    Format(call.prompt, FormatArguments(npcs_in_conversation, last_added_character,
                                        get_bios_text(npcs_in_conversation), <<>>))
BareRendering ==
    Format(call.prompt, FormatArguments(npcs_in_conversation, last_added_character, <<>>, <<>>))

Ladder == <<FullRendering, BiosOnlyRendering, BareRendering>>

\* C1: generate_system_message hands the renderings to the predicate in the order
\* (1) bios + summaries, (2) bios only, (3) neither, at most three times, and returns the
\* first rendering the predicate does not find too long; nothing is asked after it.
FirstFittingRenderingIsReturned ==
    Generated =>
        /\ Len(call.asked) <= 3
        /\ \A i \in 1..Len(call.asked) : call.asked[i] = Ladder[i]
        /\ call.outcome = "returned" =>
              \A i \in 1..3 :
                  (Ladder[i] \notin call.too_long /\ \A j \in 1..(i - 1) : Ladder[j] \in call.too_long)
                      => call.result = Ladder[i] /\ Len(call.asked) = i

\* the full rendering is too long, the bios-only rendering fits and is returned although
\* the bare rendering, a different text, fits too
SecondRenderingReturned ==
    /\ Generated /\ call.outcome = "returned"
    /\ Len(call.asked) = 2
    /\ FullRendering \in call.too_long
    /\ BareRendering \notin call.too_long
    /\ BareRendering # BiosOnlyRendering
    /\ call.result = BiosOnlyRendering

\* C2: when the predicate has judged all three renderings too long, the call returns the
\* prompt as it was passed in, replacement fields unfilled, and does not raise.
UnfilledPromptWhenNothingFits ==
    (Generated /\ Len(call.asked) = 3 /\ \A i \in 1..3 : call.asked[i] \in call.too_long)
        => call.outcome = "returned" /\ call.result = call.prompt

\* all three renderings were asked about and found too long; the prompt has a field
\* that every rendering fills
NothingFitted ==
    /\ Generated /\ Len(call.asked) = 3
    /\ \A i \in 1..3 : call.asked[i] \in call.too_long
    /\ "{name}" \in {call.prompt[i] : i \in 1..Len(call.prompt)}
    /\ call.result = call.prompt
    /\ BareRendering # call.prompt

\* C3: generate_system_message returns a string and never raises, whatever the roster.
GenerateNeverRaises == Generated => call.outcome = "returned"

(***************************************************************************)
(* Properties of find_character_info (SpecFind).                           *)
(***************************************************************************)
Found == call.op = "find_character_info" /\ call.outcome = "returned"

ExtractedRace == character_race_of(call.race)[1]

\* the seven match sets in the order of the design document
DocumentedTiers ==
    LET id == id_match(character_df, call.character_id)
        name == name_match(character_df, call.character_name)
        race == race_match(character_df, ExtractedRace)
        partial == partial_id_match(character_df, call.character_id)
    IN  << name \cap id \cap race, name \cap id, name \cap partial \cap race, name \cap partial,
           name \cap race, name, id >>

RowsOf(mask) == {character_df[i] : i \in mask}

\* C4: the tiers are tried in the order name+id+race, name+id, name+partial id+race,
\* name+partial id, name+race, name, id; the row returned belongs to the first tier that
\* matches any row, so a looser tier only decides when every stricter one is empty.
FirstMatchingTierWins ==
    Found =>
        \A k \in 1..7 :
            (DocumentedTiers[k] # {} /\ \A j \in 1..(k - 1) : DocumentedTiers[j] = {})
                => /\ ~call.is_generic_npc
                   /\ call.character_info \in RowsOf(DocumentedTiers[k])

\* the name + race tier decides while a row that matches the name alone comes first in the table
NameAndRaceTierDecided ==
    /\ Found
    /\ \A j \in 1..4 : DocumentedTiers[j] = {}
    /\ DocumentedTiers[5] # {}
    /\ DocumentedTiers[6] # DocumentedTiers[5]
    /\ 1 \notin DocumentedTiers[5]
    /\ call.character_info \in RowsOf(DocumentedTiers[5])

\* C5: is_generic_npc is true exactly when none of the seven tiers matches a row; then the
\* record is load_unnamed_npc(name, extracted race, gender, voice model), else it is a table row.
GenericExactlyWhenNothingMatches ==
    Found =>
        /\ call.is_generic_npc <=> \A k \in 1..7 : DocumentedTiers[k] = {}
        /\ call.is_generic_npc =>
              call.character_info = load_unnamed_npc(call.character_name, ExtractedRace,
                                                     call.gender, call.ingame_voice_model)
        /\ ~call.is_generic_npc => call.character_info \in RowsOf(1..Len(character_df))

\* nothing in a table with rows matches: the generic record comes back
GenericReturned ==
    /\ Found
    /\ character_df # <<>>
    /\ call.is_generic_npc
    /\ call.character_info = load_unnamed_npc(call.character_name, ExtractedRace,
                                              call.gender, call.ingame_voice_model)

\* C6: find_character_info never throws: every call ends with a table row or the generic record.
ResolutionNeverThrows == call.op = "find_character_info" => call.outcome = "returned"

(***************************************************************************)
(* Properties of the roster operations (Spec, SpecTransient).              *)
(***************************************************************************)
Count(e, events) == Cardinality({i \in 1..Len(events) : events[i] = e})

\* the events a step has appended
Appended == SubSeq(ingame_events', Len(ingame_events) + 1, Len(ingame_events'))

\* C7: after add_or_update_characters(new list) the names in the roster are the names of the
\* new list: the missing ones were added and every absent one was removed.
RosterFollowsNewList ==
    [][call'.op = "add_or_update_characters"
          => NamesOf(npcs_in_conversation') = NamesOf(call'.new_list)]_vars

\* two characters have left in one call and another one has joined
SeveralLeftAtOnce ==
    /\ call.op = "add_or_update_characters"
    /\ call.removed >= 2
    /\ Len(npcs_in_conversation) = 1

NoTransientChange(l) ==
    \A i \in 1..Len(l) :
        LET stored == get_character_by_name(npcs_in_conversation, l[i].name)
        IN  /\ stored.is_in_combat = l[i].is_in_combat
            /\ stored.is_enemy = l[i].is_enemy
            /\ stored.relationship_rank = l[i].relationship_rank

\* C8: the roster never holds two entries with one name; handing over the characters that
\* are already there leaves its size unchanged and, when no transient field differs, leaves
\* the actors-changed flag as it was.
SameCharactersAgain ==
    [][/\ Cardinality(NamesOf(npcs_in_conversation')) = Len(npcs_in_conversation')
       /\ (call'.op = "add_or_update_characters" /\ call'.new_list # <<>>
                /\ NamesOf(call'.new_list) = NamesOf(npcs_in_conversation))
            => /\ Len(npcs_in_conversation') = Len(npcs_in_conversation)
               /\ NoTransientChange(call'.new_list)
                     => have_actors_changed' = have_actors_changed]_vars

\* the characters of the roster were handed over again, nothing was reported and the
\* flag, reset by the caller in between, is still false
AddedAgainFlagStillFalse ==
    /\ call.op = "add_or_update_characters"
    /\ call.removed = 0
    /\ call.known >= 1
    /\ call.known = Len(npcs_in_conversation)
    /\ call.appended = 0
    /\ ~have_actors_changed

\* C9: every removal appends exactly one "<name> has left the conversation" and sets the
\* actors-changed flag; remove_character of a character that is not there changes neither.
EveryRemovalIsReported ==
    [][/\ call'.op = "add_or_update_characters" =>
            LET gone == NamesOf(npcs_in_conversation) \ NamesOf(call'.new_list)
            IN  /\ SubSeq(ingame_events', 1, Len(ingame_events)) = ingame_events
                /\ \A c \in CalmCharacters :
                      Count(LeftEvent(c.name), Appended) = IF c.name \in gone THEN 1 ELSE 0
                /\ gone # {} => have_actors_changed'
       /\ call'.op = "remove_character" =>
            IF call'.npc.name \in NamesOf(npcs_in_conversation)
            THEN /\ ingame_events' = Append(ingame_events, LeftEvent(call'.npc.name))
                 /\ have_actors_changed'
            ELSE /\ ingame_events' = ingame_events
                 /\ have_actors_changed' = have_actors_changed]_vars

\* remove_character has taken a member out of the roster
MemberRemoved ==
    /\ call.op = "remove_character"
    /\ call.removed = 1
    /\ ingame_events # <<>>
    /\ ingame_events[Len(ingame_events)][1] = "has left the conversation"
    /\ have_actors_changed

CombatEvents(n) == {CombatEvent(n, now) : now \in BOOLEAN}
EnemyEvents(n) ==
    {EnemyEvent(n, now, p) : now \in BOOLEAN, p \in {PlayerName, "the player"}}
TrustEvents(n) ==
    {TrustEvent(n, get_trust(r, ConversationLogLen(n)), p) : r \in Ranks, p \in {PlayerName, "the player"}}

CountIn(S, events) == Cardinality({i \in 1..Len(events) : events[i] \in S})

\* C10: for a character of the roster that is in the new list, add_or_update_characters
\* appends one event per transient field whose incoming value differs from the stored one
\* (combat for everyone, hostility and relationship rank for non-player characters) and
\* none for a field that has not changed.
OneEventPerChangedField ==
    [][call'.op = "add_or_update_characters" =>
          LET l == call'.new_list
          IN  \A n \in NamesOf(npcs_in_conversation) \cap NamesOf(l) :
                  LET stored == get_character_by_name(npcs_in_conversation, n)
                      Incoming(Differs(_)) ==
                          Cardinality({i \in 1..Len(l) : l[i].name = n /\ Differs(l[i])})
                      Combat(c) == c.is_in_combat # stored.is_in_combat
                      Enemy(c) == ~c.is_player_character /\ c.is_enemy # stored.is_enemy
                      Rank(c) == /\ ~c.is_player_character
                                 /\ c.relationship_rank # stored.relationship_rank
                  IN  /\ CountIn(CombatEvents(n), Appended) = Incoming(Combat)
                      /\ CountIn(EnemyEvents(n), Appended) = Incoming(Enemy)
                      /\ CountIn(TrustEvents(n), Appended) = Incoming(Rank)]_vars

\* combat state, hostility and relationship rank of a character changed in one call
ThreeFieldsChanged ==
    /\ call.op = "add_or_update_characters"
    /\ call.removed = 0
    /\ call.known = 1
    /\ call.appended = 3

(***************************************************************************)
(* update_context: the location, the hour and the events of the game.      *)
(***************************************************************************)
Updated == call.op = "update_context"
LocationChanged == Updated /\ call.location # call.location_before

\* what the call appended to the list object it was handed
AppendedToHanded ==
    SubSeq(custom_ingame_events, Len(call.custom_ingame_events) + 1, Len(custom_ingame_events))

\* C11, as stated: when update_context is called with a location that differs from the
\* stored one, the stored location still holds the old value at the moment the event is
\* appended, and the appended event names the old location.
LocationEventBeforeOverwrite ==
    LocationChanged =>
        /\ call.location_at_append = <<call.location_before>>
        /\ AppendedToHanded # <<>>
        /\ AppendedToHanded[1] = LocationEvent(call.location_before)

\* C11, amended: when update_context is called with a location that differs from the
\* stored one, the stored location is overwritten first: at the moment the event is
\* appended the stored location already holds the new value, and the appended event
\* names the new location.
LocationEventAfterOverwrite ==
    LocationChanged =>
        /\ call.location_at_append = <<call.location>>
        /\ location = call.location
        /\ AppendedToHanded # <<>>
        /\ AppendedToHanded[1] = LocationEvent(call.location)

\* the game moved from Skyrim to Whiterun
LocationChangeReported ==
    /\ LocationChanged
    /\ call.location_before = "Skyrim"
    /\ call.location = "Whiterun"
    /\ AppendedToHanded[1] = LocationEvent("Whiterun")

\* C12, as stated: after update_context returns, the queue ends with the events that were
\* handed over, followed by the location-change event when the location changed and by
\* the time-change event when the (hour, time group) pair changed.
EveryEventReachesTheQueue ==
    Updated =>
        /\ Len(ingame_events) >= Len(custom_ingame_events)
        /\ SubSeq(ingame_events, Len(ingame_events) - Len(custom_ingame_events) + 1,
                  Len(ingame_events)) = custom_ingame_events

\* C13: the second of two update_context calls in a row with the same location and hour
\* creates no location-change and no time-change event: the list it was handed is left
\* as it was and the queue grows by the handed events only.
SecondIdenticalUpdateAddsNothing ==
    [][(/\ call.op = "update_context"
        /\ call'.op = "update_context"
        /\ call'.location = call.location
        /\ call'.in_game_time = call.in_game_time)
       => /\ custom_ingame_events' = call'.custom_ingame_events
          /\ ingame_events' = ingame_events \o call'.custom_ingame_events
          /\ location' = location
          /\ prev_game_time' = prev_game_time]_vars

\* Whiterun at 20 was reported twice in a row, the second time with no event at all
ReportedTwice ==
    /\ Updated
    /\ call.repeated
    /\ call.location = "Whiterun"
    /\ call.in_game_time = 20
    /\ call.custom_ingame_events = <<>>
    /\ custom_ingame_events = <<>>

\* the (hour, time group) pair of the latest update_context call
PairOfCall == <<ToString(call.in_game_time), get_time_group(call.in_game_time)>>

\* what the call appended after the location-change event, if any
AppendedAfterLocation ==
    SubSeq(AppendedToHanded, (IF LocationChanged THEN 2 ELSE 1), Len(AppendedToHanded))

\* C14: update_context appends a time-change event if and only if the pair (hour, time
\* group of the hour) differs from the pair recorded before the call, which is the pair
\* of the previous call or the empty pair of the constructor, from which every pair
\* differs; the stored hour is the supplied one after every call, and the recorded pair
\* is replaced exactly when an event is appended.
TimeEventIffPairChanged ==
    Updated =>
        /\ ingame_time = call.in_game_time
        /\ AppendedAfterLocation =
               IF PairOfCall # call.time_before
               THEN << <<"The time is", PairOfCall[1], PairOfCall[2]>> >> ELSE <<>>
        /\ prev_game_time = IF AppendedAfterLocation # <<>> THEN PairOfCall
                            ELSE call.time_before
        /\ prev_game_time = PairOfCall
        /\ (call.time_before = <<"", "">> => AppendedAfterLocation # <<>>)

\* the hour went from 12 to 13 within the afternoon, and the change was reported
HourChangedWithinGroup ==
    /\ Updated
    /\ call.time_before = <<"12", "in the afternoon">>
    /\ call.in_game_time = 13
    /\ AppendedAfterLocation = << <<"The time is", "13", "in the afternoon">> >>

(***************************************************************************)
(* The queue of events between two flushes.                                *)
(***************************************************************************)
\* C15: every operation other than clear_context_ingame_events leaves the events queued
\* before it as an unchanged prefix of the queue, and clear_context_ingame_events leaves
\* the queue empty.
QueueGrowsBetweenFlushes ==
    [][IF call'.op = "clear_context_ingame_events"
       THEN ingame_events' = <<>>
       ELSE /\ Len(ingame_events') >= Len(ingame_events)
            /\ SubSeq(ingame_events', 1, Len(ingame_events)) = ingame_events]_vars

\* events handed over by the game were queued behind events that were already pending
QueuedBehindEarlierEvents ==
    /\ Updated
    /\ call.custom_ingame_events # <<>>
    /\ Len(ingame_events) > Len(call.custom_ingame_events)
    /\ ingame_events[1] = LeftEvent("Lydia")

(***************************************************************************)
(* The trust of an NPC towards the player.                                 *)
(***************************************************************************)
TrustAsked == call.op = "get_trust"

\* C16: the trust is decided by the relationship rank and the number of prior exchanges
\* alone, with exact cutoffs: rank 0 gives a stranger below 1 exchange, an acquaintance
\* for 1..9, a friend for 10..49, a close friend from 50 on; ranks 1..3 give a friend,
\* rank 4 a lover and a negative rank an enemy, whatever the count.
TrustFollowsTheTable ==
    TrustAsked =>
        LET rank == call.relationship_rank
            count == call.trust_level
        IN  /\ (rank = 0 /\ count < 1) => call.trust = "a stranger"
            /\ (rank = 0 /\ count \in 1..9) => call.trust = "an acquaintance"
            /\ (rank = 0 /\ count \in 10..49) => call.trust = "a friend"
            /\ (rank = 0 /\ count >= 50) => call.trust = "a close friend"
            /\ rank \in 1..3 => call.trust = "a friend"
            /\ rank = 4 => call.trust = "a lover"
            /\ rank < 0 => call.trust = "an enemy"

\* fifty exchanges at rank 0 make a close friend
FiftyExchanges ==
    /\ TrustAsked
    /\ call.relationship_rank = 0
    /\ call.trust_level = 50
    /\ call.trust = "a close friend"

(***************************************************************************)
(* How the player is named.                                                *)
(***************************************************************************)
\* C17, as stated: the hostility and relationship-rank events and the player-name value
\* of the rendered prompt name the player by the player character's name when the roster
\* holds a player character and by 'the player' when it holds none.
PlayerIsNamedEverywhere ==
    [][/\ call'.op = "add_or_update_characters" =>
            LET l == call'.new_list
                \* the roster holds a player when the i-th character of the list is handled
                NameAt(i) ==
                    IF \/ get_player_character(npcs_in_conversation) # <<>>
                       \/ \E j \in 1..(i - 1) : l[j].is_player_character
                    THEN PlayerName ELSE "the player"
                NamesFor(n) == {NameAt(i) : i \in {j \in 1..Len(l) : l[j].name = n}}
            IN  \A k \in 1..Len(Appended) :
                    LET e == Appended[k]
                    IN  /\ e[1] \in {"is attacking", "is no longer attacking"}
                            => e[3] \in NamesFor(e[2])
                        /\ e[1] = "is now _ to" => e[2] \in NamesFor(e[4])
       /\ (call'.op = "generate_system_message" /\ call'.outcome = "returned") =>
            LET player == get_player_character(npcs_in_conversation)
                arguments == FormatArguments(npcs_in_conversation, last_added_character,
                                             get_bios_text(npcs_in_conversation),
                                             call'.conversation_summaries)
            IN  call'.result =
                    Format(call'.prompt,
                           [arguments EXCEPT !["{player_name}"] =
                               IF player # <<>> THEN <<player[1].name>>
                               ELSE <<"the player">>])]_vars

(***************************************************************************)
(* The rendering that is returned when the full one is too long.           *)
(***************************************************************************)
\* the rendering without the bios and with the summaries
BiosStrippedRendering ==
    Format(call.prompt, FormatArguments(npcs_in_conversation, last_added_character,
                                        <<>>, call.conversation_summaries))

\* C18, as stated: when the full rendering is too long and the rendering with the bios
\* stripped fits, generate_system_message returns the bios-stripped rendering.
BiosStrippedRenderingIsReturned ==
    (/\ Generated /\ call.outcome = "returned"
     /\ FullRendering \in call.too_long
     /\ BiosStrippedRendering \notin call.too_long)
        => call.result = BiosStrippedRendering

\* C18, amended: when the full rendering is too long and the bios-only rendering (the
\* summaries stripped, the bios kept) fits, generate_system_message returns the
\* bios-only rendering.
BiosOnlyRenderingIsReturned ==
    (/\ Generated /\ call.outcome = "returned"
     /\ FullRendering \in call.too_long
     /\ BiosOnlyRendering \notin call.too_long)
        => call.result = BiosOnlyRendering

\* the summaries were dropped and the bios were kept: the text returned is neither the
\* full rendering nor the one without the bios
SummariesDroppedBiosKept ==
    /\ Generated /\ call.outcome = "returned"
    /\ call.conversation_summaries # <<>>
    /\ FullRendering \in call.too_long
    /\ call.result = BiosOnlyRendering
    /\ BiosOnlyRendering # FullRendering
    /\ BiosOnlyRendering # BiosStrippedRendering

(***************************************************************************)
(* The id in the innermost tier, and the partial id.                       *)
(***************************************************************************)
NameRows == name_match(character_df, call.character_name)
FullIdRows == id_match(character_df, call.character_id)
PartialIdRows == partial_id_match(character_df, call.character_id)

\* C19, as stated: when no row matches the queried name but some row matches the queried
\* id in partial form only, that row is returned and the result is not generic.
PartialIdAloneFindsTheRow ==
    (Found /\ NameRows = {} /\ FullIdRows = {} /\ PartialIdRows # {})
        => /\ ~call.is_generic_npc
           /\ call.character_info \in RowsOf(PartialIdRows)

\* C19, amended: the id-only tier matches on the full id alone: when no row matches the
\* queried name, the first row that matches the full id is returned, and when none does
\* the result is generic, also when some row matches the id in partial form.
FullIdAloneFindsTheRow ==
    (Found /\ NameRows = {})
        => IF FullIdRows # {}
           THEN ~call.is_generic_npc /\ call.character_info = character_df[Min(FullIdRows)]
           ELSE call.is_generic_npc

\* a row matches the last digits of the queried id, none matches its name or its full id:
\* the generic record comes back
PartialIdAloneIsGeneric ==
    /\ Found
    /\ NameRows = {}
    /\ FullIdRows = {}
    /\ PartialIdRows # {}
    /\ call.is_generic_npc
    /\ call.character_info \notin RowsOf(PartialIdRows)

\* the last n characters without leading zeros, in lower case
Trailing(s, n) == lower(lstrip0(LastChars(s, n)))

\* the rows whose id agrees with the queried id in the last n characters
RowsAgreeingIn(n) ==
    {i \in 1..Len(character_df) :
        /\ ~isna(character_df[i].base_id)
        /\ Trailing(character_df[i].base_id, n) = Trailing(call.character_id, n)}

LydiaAsked ==
    /\ \E i \in 1..Len(character_df) : character_df[i] = LydiaRow
    /\ call.character_id = <<"1", "2", "A", "B">>
    /\ call.character_name = <<"L", "y", "d", "i", "a">>
    /\ ExtractedRace = <<"N", "o", "r", "d">>

\* C20: the partial-id match is the set of rows that agree with the query in the trailing
\* 5 characters if there is any, else in the trailing 4 if there is any, else in the
\* trailing 3 (leading zeros stripped on both sides, case ignored); and with the row
\* (0x00012AB, Lydia, Nord) in the table, the query (12AB, Lydia, Nord) is decided by
\* tier 3 and returns that row.
PartialIdLongestLengthFirst ==
    Found =>
        /\ call.partial_id_match =
               IF RowsAgreeingIn(5) # {} THEN RowsAgreeingIn(5)
               ELSE IF RowsAgreeingIn(4) # {} THEN RowsAgreeingIn(4)
               ELSE RowsAgreeingIn(3)
        /\ LydiaAsked =>
               /\ call.tier = 3
               /\ ~call.is_generic_npc
               /\ call.character_info = LydiaRow

\* another Lydia of the same race comes first in the table; the query 12AB finds the row
\* 0x00012AB by name, partial id and race
LydiaFoundByPartialId ==
    /\ Found
    /\ character_df = <<OtherLydiaRow, LydiaRow>>
    /\ LydiaAsked
    /\ call.partial_id_match = {2}
    /\ call.tier = 3
    /\ call.character_info = LydiaRow

(***************************************************************************)
(* The table that cannot be read.                                          *)
(***************************************************************************)
\* C21: a failure to load the character table is fatal: no game object exists without a
\* loaded table, and find_character_info is never run after a failed load.
LoadFailureIsFatal ==
    /\ game # "without table"
    /\ call.op = "find_character_info" => game = "with table"

(***************************************************************************)
(* The custom values of the game.                                          *)
(***************************************************************************)
\* the value a bag holds for a key, <<>> when it holds none
ValueIn(values, key) ==
    IF \E kv \in values : kv[1] = key
    THEN <<(CHOOSE kv \in values : kv[1] = key)[2]>> ELSE <<>>

\* C22: after update_context(..., values) has returned, get_custom_context_value(k) is
\* values[k] for every key of values and None for every other key, the keys of earlier
\* calls included; the operations in between leave the values alone, and the getter
\* returns what the values hold.
ValuesAreReplacedWholesale ==
    [][/\ call'.op = "update_context" =>
              /\ custom_context_values' = call'.custom_context_values
              /\ \A kv \in custom_context_values :
                     (\A nv \in call'.custom_context_values : nv[1] # kv[1])
                         => ValueIn(custom_context_values', kv[1]) = <<>>
       /\ call'.op # "update_context" => custom_context_values' = custom_context_values
       /\ call'.op = "get_custom_context_value" =>
              call'.result = ValueIn(custom_context_values, call'.key)]_vars

\* the weather of the call before is gone once the game reports a quest alone
EarlierKeyIsGone ==
    /\ Updated
    /\ call.values_before = {<<"weather", "rain">>}
    /\ call.custom_context_values = {<<"quest", "main">>}
    /\ get_custom_context_value("weather") = <<>>
    /\ get_custom_context_value("quest") = <<"main">>

(***************************************************************************)
(* Listings.                                                               *)
(***************************************************************************)
Listed == call.op = "format_listing"

\* C23: format_listing returns the empty string for an empty list, the item for a list of
\* one, and for N > 1 items the first N - 1 joined by ', ', then ' and ', then the last
\* item, in the order of the list.
ListingIsCommasThenAnd ==
    Listed =>
        LET listing == call.listing
            N == Len(listing)
            result == call.result
        IN  /\ N = 0 => result = <<>>
            /\ N = 1 => result = listing[1]
            /\ N > 1 =>
                  /\ Len(result) = 2 * N - 1
                  /\ \A i \in 1..N : <<result[2 * i - 1]>> = listing[i]
                  /\ \A i \in 1..(N - 2) : result[2 * i] = ", "
                  /\ result[2 * (N - 1)] = " and "

\* three names: 'Lydia, Ulfric and Prisoner'
ThreeListed ==
    /\ Listed
    /\ call.listing = << <<"Lydia">>, <<"Ulfric">>, <<"Prisoner">> >>
    /\ call.result = <<"Lydia", ", ", "Ulfric", " and ", "Prisoner">>

(***************************************************************************)
(* The transient fields the roster holds.                                  *)
(***************************************************************************)
\* C24, as stated: after add_or_update_characters has processed a character that was in
\* the roster and is in the new list, the roster holds the incoming combat state,
\* hostility and relationship rank of that character, and a second call in a row with the
\* same list appends no event.
TransitionsAreReportedOnce ==
    [][call'.op = "add_or_update_characters" =>
          LET l == call'.new_list
          IN  /\ \A i \in 1..Len(l) :
                    (/\ l[i].name \in NamesOf(npcs_in_conversation)
                     /\ \A j \in 1..Len(l) : l[j].name = l[i].name => j = i)
                        => get_character_by_name(npcs_in_conversation', l[i].name) = l[i]
              /\ (call.op = "add_or_update_characters" /\ call.new_list = l)
                    => Appended = <<>>]_vars

(***************************************************************************)
(* The arguments of update_context.                                        *)
(***************************************************************************)
\* C25, as stated: update_context leaves the list of events it is handed as it was, so
\* when the list object of one call is handed to the next call, the queue receives the
\* events the caller put into it and no location-change or time-change event of the
\* first call.
ArgumentsAreNotModified ==
    [][call'.op = "update_context" =>
          /\ custom_ingame_events' = call'.custom_ingame_events
          /\ (call.op = "update_context" /\ call'.custom_ingame_events = custom_ingame_events)
                => Appended = call.custom_ingame_events]_vars

(***************************************************************************)
(* What generate_system_message leaves alone.                              *)
(***************************************************************************)
\* C26: generate_system_message, whichever rendering or fallback it returns, leaves the
\* roster, the queue of events, the stored location, the in-game time, the recorded
\* (hour, time group) pair, the custom values and the actors-changed flag as they were.
GenerateIsReadOnly ==
    [][call'.op = "generate_system_message" =>
          /\ npcs_in_conversation' = npcs_in_conversation
          /\ last_added_character' = last_added_character
          /\ ingame_events' = ingame_events
          /\ location' = location
          /\ ingame_time' = ingame_time
          /\ prev_game_time' = prev_game_time
          /\ custom_context_values' = custom_context_values
          /\ have_actors_changed' = have_actors_changed]_vars

\* the unfilled prompt came back while events were pending in Whiterun, and they still are
FallbackWithEventsPending ==
    /\ Generated /\ call.outcome = "returned"
    /\ Len(call.asked) = 3
    /\ call.result = call.prompt
    /\ ingame_events # <<>>
    /\ location = "Whiterun"
    /\ have_actors_changed
====
